---------------------------- MODULE Spec2Model ----------------------------
(***************************************************************************)
(* The build-and-push pipeline of deploy-rs: push_profile (src/push.rs)    *)
(* and build_ca_profile (src/buildca.rs).                                  *)
(*                                                                         *)
(* A string is a sequence of tokens (a token stands for a run of           *)
(* characters; no token is a concatenation of other tokens), so that       *)
(* format!, +, starts_with, trim and join are computed on the text.        *)
(* An argument vector is a sequence of strings.  Option<T> is <<>> (None)  *)
(* or <<x>> (Some(x)).                                                     *)
(*                                                                         *)
(* One action models one stretch of code between two await points; the    *)
(* external processes and the filesystem are the environment.             *)
(***************************************************************************)
EXTENDS Integers, Sequences, FiniteSets, TLC

VARIABLES
    fn,               \* the entry point that was called
    data,             \* PushProfileData / BuildCAProfileData (with deploy_data, deploy_defs flattened)
    local_key,        \* std::env::var("LOCAL_KEY") as an Option
    fs,               \* the files that exist on the local filesystem
    pc,               \* the await point the future is suspended at
    build_command,    \* argv of build_command (program first)
    local_ca_data,    \* CaData {is_ca, path}
    derivation_name,  \* the key taken from show-derivation's output (Option)
    trace,            \* every process spawn and every Path::exists call, in order
    result,           \* what the call returned
    pushes            \* calls of push_profile that run side by side: of each its
                      \* data, its await point, its build command, the link it left

\* the state of one call
call_vars == <<fn, data, local_key, fs, pc, build_command, local_ca_data,
               derivation_name, trace, result>>

vars == <<call_vars, pushes>>

-----------------------------------------------------------------------------
(* Bounds of the model *)

\* the caller passes at most this many extra build arguments
MaxExtraArgs == 2

\* exit codes 0..MaxExitCode, or none (killed by a signal)
MaxExitCode == 1

\* the longest node or profile name
MaxNameLen == 3

-----------------------------------------------------------------------------
(* Option and string helpers *)

None == <<>>

Some(x) == <<x>>

\* Option::unwrap_or
UnwrapOr(opt, default) == IF opt = None THEN default ELSE opt[1]

\* str::starts_with
StartsWith(s, prefix) ==
    /\ Len(s) >= Len(prefix)
    /\ SubSeq(s, 1, Len(prefix)) = prefix

\* char::is_whitespace on a token
IsWhitespace(t) == t \in {" ", "\n"}

RECURSIVE TrimStart(_)
TrimStart(s) ==
    IF s # <<>> /\ IsWhitespace(s[1]) THEN TrimStart(Tail(s)) ELSE s

RECURSIVE TrimEnd(_)
TrimEnd(s) ==
    IF s # <<>> /\ IsWhitespace(s[Len(s)])
    THEN TrimEnd(SubSeq(s, 1, Len(s) - 1))
    ELSE s

\* str::trim
Trim(s) == TrimEnd(TrimStart(s))

\* [String]::join
RECURSIVE Join(_, _)
Join(list, sep) ==
    IF list = <<>> THEN <<>>
    ELSE IF Len(list) = 1 THEN list[1]
    ELSE list[1] \o sep \o Join(Tail(list), sep)

\* a byte sequence that is no valid UTF-8
BadByte == "\\xff"

\* std::str::from_utf8 / String::from_utf8 succeed
Utf8Valid(bytes) == \A i \in DOMAIN bytes : bytes[i] # BadByte

-----------------------------------------------------------------------------
(* The inputs the calls are made with *)

Repo == <<".">>

NodeName == <<"web">>

ProfileName == <<"system">>

\* a profile path that is a store path, and one that is not ("/hash")
StorePath == <<"/nix/store", "/", "h1-system">>

CAPath == <<"/", "h2-system">>

\* where a content-addressed build puts its output
RealizedPath == <<"/nix/store", "/", "h3-system">>

ResultDir == <<"/var/gc">>

\* the flags a caller may pass on; the caller may repeat a flag of the pipeline
ExtraPool == << <<"--impure">>, <<"--no-link">>, <<"--show-trace">>, <<"--out-link">> >>

ExtraArgChoices ==
    { SubSeq(ExtraPool, 1, n) : n \in 0..(IF MaxExtraArgs < Len(ExtraPool)
                                          THEN MaxExtraArgs ELSE Len(ExtraPool)) }

PushInputs ==
    [ supports_flakes   : BOOLEAN,
      check_sigs        : BOOLEAN,
      repo              : {Repo},
      keep_result       : BOOLEAN,
      result_path       : {None, Some(ResultDir)},
      extra_build_args  : ExtraArgChoices,
      node_name         : {NodeName},
      profile_name      : {ProfileName},
      path              : {StorePath, CAPath},
      fast_connection   : {None, Some(TRUE), Some(FALSE)},
      ssh_opts          : {<< <<"-p">>, <<"2222">> >>},
      override_hostname : {None, Some(<<"10.0.0.7">>)},
      hostname          : {<<"web.example">>},
      ssh_user          : {<<"deploy">>} ]

\* BuildCAProfileData has no check_sigs, keep_result or result_path
BuildCAInputs ==
    { d \in PushInputs : /\ d.check_sigs = FALSE
                         /\ d.keep_result = FALSE
                         /\ d.result_path = None
                         /\ d.fast_connection = None
                         /\ d.override_hostname = None }

\* node and profile names are attribute names of the flake: any text; here
\* letters and slashes, with a letter first and last
NameChoices ==
    { s \in UNION { [1..n -> {"a", "/"}] : n \in 1..MaxNameLen } :
        s[1] # "/" /\ s[Len(s)] # "/" }

\* a content-addressed profile whose result is kept
KeptProfile(result_path, node, profile) ==
    [ supports_flakes   |-> TRUE,
      check_sigs        |-> FALSE,
      repo              |-> Repo,
      keep_result       |-> TRUE,
      result_path       |-> result_path,
      extra_build_args  |-> <<>>,
      node_name         |-> node,
      profile_name      |-> profile,
      path              |-> CAPath,
      fast_connection   |-> None,
      ssh_opts          |-> << <<"-p">>, <<"2222">> >>,
      override_hostname |-> None,
      hostname          |-> <<"web.example">>,
      ssh_user          |-> <<"deploy">> ]

ExitCodes == {None} \cup { Some(c) : c \in 0..MaxExitCode }

\* the derivations show-derivation may name
DrvA == "/nix/store/d1-system.drv"

DrvB == "/nix/store/d2-system.drv"

\* what a content-addressed build may print: the path and a newline (as nix
\* does), the bare path, nothing, or bytes that are no text
BuildOutputs ==
    { RealizedPath \o <<"\n">>, RealizedPath, <<>>, <<BadByte>> }

\* what show-derivation may print
ShowDerivationOutputs ==
    { <<"{", "}">>,
      <<"{", DrvA, ":{}", "}">>,
      <<"{", DrvA, ":{}", ",", DrvB, ":{}", "}">>,
      <<"{", DrvA>>,
      <<BadByte>> }

-----------------------------------------------------------------------------
(* The commands the pipeline builds *)

\* push.rs 79-83
BuildProgram(d) == IF d.supports_flakes THEN <<"nix">> ELSE <<"nix-build">>

\* push.rs 108-115, buildca.rs 48-55
CATarget(d) ==
    d.repo \o <<"#deploy.nodes.">> \o d.node_name
           \o <<".profiles.">> \o d.profile_name \o <<".path">>

\* a slip: the legacy form in both dialects
StoreTargetLegacy(d, name) == << name >>

\* push.rs 145-149
StoreTarget(d, name) ==
    IF d.supports_flakes THEN << <<"build">>, name >> ELSE << name >>

\* push.rs 159-164
OutLink(d) ==
    UnwrapOr(d.result_path, <<"./.deploy-gc">>)
        \o <<"/">> \o d.node_name \o <<"/">> \o d.profile_name

\* a slip: the legacy flag in both dialects
LinkArgsLegacyFlag(d) ==
    IF d.keep_result THEN << <<"--out-link">>, OutLink(d) >>
    ELSE << <<"--no-out-link">> >>

\* push.rs 157-168
LinkArgs(d) ==
    IF d.keep_result THEN << <<"--out-link">>, OutLink(d) >>
    ELSE IF d.supports_flakes THEN << <<"--no-link">> >>
    ELSE << <<"--no-out-link">> >>

\* push.rs 79-115, 157-180: the build command of the content-addressed branch
PushCABuildCommand(d) ==
    << BuildProgram(d), <<"build">>, CATarget(d) >>
        \o LinkArgs(d) \o d.extra_build_args \o << <<"--print-out-paths">> >>

\* push.rs 79-83, 145-172: the build command of the store-path branch
PushStoreBuildCommand(d, name) ==
    << BuildProgram(d) >> \o StoreTarget(d, name)
        \o LinkArgs(d) \o d.extra_build_args

\* buildca.rs 45-63
BuildCACommand(d) ==
    << <<"nix">>, <<"build">>, CATarget(d), <<"--no-link">> >>
        \o d.extra_build_args \o << <<"--print-out-paths">> >>

\* push.rs 118-122
ShowDerivationCommand(d) == << <<"nix">>, <<"show-derivation">>, d.path >>

\* push.rs 231-236, 275-280
SignCommand(key, path) ==
    << <<"nix">>, <<"sign-paths">>, <<"-r">>, <<"-k">>, key, path >>

\* push.rs 318-321
Hostname(d) ==
    IF d.override_hostname # None THEN d.override_hostname[1] ELSE d.hostname

\* push.rs 326, 340
CopyTarget(d) == <<"ssh://">> \o d.ssh_user \o <<"@">> \o Hostname(d)

\* a slip: the flag is added only when the connection is declared slow
SubstituteArgsWhenSlow(d) ==
    IF d.fast_connection = Some(FALSE)
    THEN << <<"--substitute-on-destination">> >> ELSE <<>>

\* push.rs 300-302
SubstituteArgs(d) ==
    IF d.fast_connection # Some(TRUE)
    THEN << <<"--substitute-on-destination">> >> ELSE <<>>

\* push.rs 304-306
CheckSigsArgs(d) ==
    IF ~d.check_sigs THEN << <<"--no-check-sigs">> >> ELSE <<>>

\* push.rs 297-306, 324-327, 338-341
CopyCommand(d, path) ==
    << <<"nix">>, <<"copy">> >> \o SubstituteArgs(d) \o CheckSigsArgs(d)
        \o << <<"--to">>, CopyTarget(d), path >>

\* push.rs 308-316, 328, 342: the value of NIX_SSHOPTS
SshOptsStr(d) == Join(d.ssh_opts, <<" ">>)

-----------------------------------------------------------------------------
(* Reading show-derivation's output *)

JsonPunctuation == {"{", "}", ":{}", ","}

\* the members of a JSON object, `key:{}` separated by commas, as
\* [ok, keys]
RECURSIVE ParseMembers(_)
ParseMembers(s) ==
    IF Len(s) < 2 \/ s[1] \in JsonPunctuation \/ s[1] = BadByte \/ s[2] # ":{}"
    THEN [ok |-> FALSE, keys |-> {}]
    ELSE IF Len(s) = 2 THEN [ok |-> TRUE, keys |-> {s[1]}]
    ELSE IF s[3] # "," THEN [ok |-> FALSE, keys |-> {}]
    ELSE LET rest == ParseMembers(SubSeq(s, 4, Len(s)))
         IN  [ok |-> rest.ok, keys |-> IF rest.ok THEN {s[1]} \cup rest.keys ELSE {}]

\* push.rs 134-138: serde_json::from_str into HashMap<&str, Value>
ParseDerivationInfo(s) ==
    IF Len(s) < 2 \/ s[1] # "{" \/ s[Len(s)] # "}"
    THEN [ok |-> FALSE, keys |-> {}]
    ELSE IF Len(s) = 2 THEN [ok |-> TRUE, keys |-> {}]
    ELSE ParseMembers(SubSeq(s, 2, Len(s) - 1))

-----------------------------------------------------------------------------
(* Results, the trace, and the steps of the pipeline *)

\* push.rs 12-52: the variants of the error push_profile returns
PushProfileError ==
    {"ShowDerivation", "ShowDerivationExit", "ShowDerivationUtf8",
     "ShowDerivationParse", "ShowDerivationEmpty", "Build", "BuildExit",
     "DeployRsActivateDoesntExist", "ActivateRsDoesntExist", "Sign", "SignExit",
     "Copy", "CopyExit", "CADerivationNonFlake", "BuildErrorStart",
     "BuildErrorRun", "BuildErrorCode"}

\* buildca.rs 6-16: the variants of the error build_ca_profile returns
BuildCAProfileError ==
    {"CADerivationNonFlake", "BuildErrorStart", "BuildErrorRun", "BuildErrorCode"}

Pending == [tag |-> "Pending", code |-> None, value |-> <<>>]

\* Ok(()) of push_profile, Ok(path) of build_ca_profile
Ok(value) == [tag |-> "Ok", code |-> None, value |-> value]

\* a variant of PushProfileError / BuildCAProfileError; code is the
\* Option<i32> of the exit-code variants
Err(tag, code) == [tag |-> tag, code |-> code, value |-> <<>>]

\* Option::unwrap on Err: the thread panics, nothing is returned
Panic == [tag |-> "panic", code |-> None, value |-> <<>>]

\* Command::spawn / output / status: the process starts, or the spawn fails
SpawnEntry(argv, env, ok) ==
    [kind |-> "spawn", argv |-> argv, env |-> env,
     status |-> IF ok THEN "running" ELSE "failed", code |-> None, out |-> <<>>]

\* Path::exists
ExistsEntry(file, found) ==
    [kind |-> "exists", argv |-> <<file>>, env |-> <<>>,
     status |-> IF found THEN "found" ELSE "missing", code |-> None, out |-> <<>>]

\* a slip: the process is not awaited, it stays alive while the run goes on
FinishNotAwaited(tr, io_error, code, out) == tr

\* the awaited process (the last one spawned) ends: waiting fails, or it
\* exits with a code (or none) and its captured standard output
Finish(tr, io_error, code, out) ==
    [tr EXCEPT ![Len(tr)] =
        [@ EXCEPT !.status = IF io_error THEN "ioerr" ELSE "exited",
                  !.code   = IF io_error THEN None ELSE code,
                  !.out    = IF io_error THEN <<>> ELSE out]]

\* a slip: every exit code counts as success, only a signal does not
ExitOkAnyCode(code) == code # None

\* push.rs 129-132, 192-195, 211-214, 241-244, 333-336; buildca.rs 80-83:
\* `Some(0) => ()`, anything else is the stage's bad-exit error
ExitOk(code) == code = Some(0)

\* push.rs 90-96: the profile path is no store path
IsContentAddressed(d) == ~StartsWith(d.path, <<"/nix/store">>)

\* a slip: the flake precondition is never raised
LacksFlakesIgnored(d) == FALSE

\* push.rs 102-104, buildca.rs 41-43
LacksFlakes(d) == ~d.supports_flakes

\* a slip: the output is decoded before the exit code is looked at
ShowDerivationErrorDecodingFirst(io_error, code, out) ==
    IF io_error THEN Err("ShowDerivation", None)
    ELSE IF ~Utf8Valid(out) THEN Err("ShowDerivationUtf8", None)
    ELSE IF ~ExitOk(code) THEN Err("ShowDerivationExit", code)
    ELSE IF ~ParseDerivationInfo(out).ok THEN Err("ShowDerivationParse", None)
    ELSE IF ParseDerivationInfo(out).keys = {} THEN Err("ShowDerivationEmpty", None)
    ELSE Pending

\* push.rs 124-143: the `?` and `return Err` of the store-path branch in
\* the order they are written; Pending when none of them is taken
ShowDerivationError(io_error, code, out) ==
    IF io_error THEN Err("ShowDerivation", None)
    ELSE IF ~ExitOk(code) THEN Err("ShowDerivationExit", code)
    ELSE IF ~Utf8Valid(out) THEN Err("ShowDerivationUtf8", None)
    ELSE IF ~ParseDerivationInfo(out).ok THEN Err("ShowDerivationParse", None)
    ELSE IF ParseDerivationInfo(out).keys = {} THEN Err("ShowDerivationEmpty", None)
    ELSE Pending

\* a slip: the bad-exit variants do not carry the code
BuildErrorLosesCode(f, ca, status, code) ==
    IF f = "push_profile" /\ ~ca
    THEN IF status = "exited" THEN Err("BuildExit", None) ELSE Err("Build", None)
    ELSE IF status = "failed" THEN Err("BuildErrorStart", None)
    ELSE IF status = "ioerr" THEN Err("BuildErrorRun", None)
    ELSE Err("BuildErrorCode", None)

\* push.rs 182-195 (content-addressed), buildca.rs 70-83: spawn, wait and
\* exit code each have their own variant; push.rs 204-214 (store path):
\* `.status().await.map_err(Build)` covers the spawn and the wait alike
BuildError(f, ca, status, code) ==
    IF f = "push_profile" /\ ~ca
    THEN IF status = "exited" THEN Err("BuildExit", code) ELSE Err("Build", None)
    ELSE IF status = "failed" THEN Err("BuildErrorStart", None)
    ELSE IF status = "ioerr" THEN Err("BuildErrorRun", None)
    ELSE Err("BuildErrorCode", code)

Step(tr, p, r) == [trace |-> tr, pc |-> p, result |-> r]

Return(tr, r) == Step(tr, "done", r)

DeployRsActivate(path) == path \o <<"/", "deploy-rs-activate">>

ActivateRs(path) == path \o <<"/", "activate-rs">>

\* a slip: only the primary entry point is looked for
VerifyActivationPrimaryOnly(files, path) ==
    IF DeployRsActivate(path) \notin files
    THEN [checks |-> << ExistsEntry(DeployRsActivate(path), FALSE) >>,
          err |-> "DeployRsActivateDoesntExist"]
    ELSE [checks |-> << ExistsEntry(DeployRsActivate(path), TRUE) >>,
          err |-> "none"]

\* a slip: the lower-level entry point is looked for first
VerifyActivationLowerFirst(files, path) ==
    IF ActivateRs(path) \notin files
    THEN [checks |-> << ExistsEntry(ActivateRs(path), FALSE) >>,
          err |-> "ActivateRsDoesntExist"]
    ELSE IF DeployRsActivate(path) \notin files
    THEN [checks |-> << ExistsEntry(ActivateRs(path), TRUE),
                        ExistsEntry(DeployRsActivate(path), FALSE) >>,
          err |-> "DeployRsActivateDoesntExist"]
    ELSE [checks |-> << ExistsEntry(ActivateRs(path), TRUE),
                        ExistsEntry(DeployRsActivate(path), TRUE) >>,
          err |-> "none"]

\* push.rs 217-224, 246-268: the Path::exists calls made, and the error
VerifyActivation(files, path) ==
    IF DeployRsActivate(path) \notin files
    THEN [checks |-> << ExistsEntry(DeployRsActivate(path), FALSE) >>,
          err |-> "DeployRsActivateDoesntExist"]
    ELSE IF ActivateRs(path) \notin files
    THEN [checks |-> << ExistsEntry(DeployRsActivate(path), TRUE),
                        ExistsEntry(ActivateRs(path), FALSE) >>,
          err |-> "ActivateRsDoesntExist"]
    ELSE [checks |-> << ExistsEntry(DeployRsActivate(path), TRUE),
                        ExistsEntry(ActivateRs(path), TRUE) >>,
          err |-> "none"]

\* push.rs 217-351: the path the stages after the build work on
PushedPath(d, ca) == IF ca.is_ca THEN ca.path ELSE d.path

\* push.rs 297-331, 338-345: the copy is spawned
StartCopy(tr, d, ca, ok) ==
    LET e == SpawnEntry(CopyCommand(d, PushedPath(d, ca)),
                        << <<"NIX_SSHOPTS", SshOptsStr(d)>> >>, ok)
    IN  IF ok THEN Step(Append(tr, e), "copy_wait", Pending)
        ELSE Return(Append(tr, e), Err("Copy", None))

\* a slip: the content-addressed branch signs the declared profile path
StartSignDeclaredPath(tr, d, ca, key, ok) ==
    IF key = None THEN StartCopy(tr, d, ca, ok)
    ELSE LET e == SpawnEntry(SignCommand(key[1], d.path), <<>>, ok)
         IN  IF ok THEN Step(Append(tr, e), "sign_wait", Pending)
             ELSE Return(Append(tr, e), Err("Sign", None))

\* push.rs 225-239, 269-283: the signing, when LOCAL_KEY is set
StartSign(tr, d, ca, key, ok) ==
    IF key = None THEN StartCopy(tr, d, ca, ok)
    ELSE LET e == SpawnEntry(SignCommand(key[1], PushedPath(d, ca)), <<>>, ok)
         IN  IF ok THEN Step(Append(tr, e), "sign_wait", Pending)
             ELSE Return(Append(tr, e), Err("Sign", None))

\* push.rs 217-290: after a successful build, up to the next await
VerifyAndSign(tr, files, d, ca, key, ok) ==
    LET v == VerifyActivation(files, PushedPath(d, ca))
    IN  IF v.err # "none" THEN Return(tr \o v.checks, Err(v.err, None))
        ELSE StartSign(tr \o v.checks, d, ca, key, ok)

\* push.rs 197-198: the realized path is the build's standard output
CaPathOfOutput(out) == out

\* buildca.rs 85-89: the realized path is the trimmed standard output
BuildCaPathOfOutput(out) == Trim(out)

\* the activation scripts a build may leave in its output, which is at
\* the given path (for a content-addressed build, at the path it printed:
\* the printed line without its newline)
ArtifactFiles(path) == SUBSET { DeployRsActivate(path), ActivateRs(path) }

-----------------------------------------------------------------------------
(* The state machine *)

Init ==
    /\ fn \in {"push_profile", "build_ca_profile"}
    /\ data \in IF fn = "push_profile" THEN PushInputs ELSE BuildCAInputs
    /\ local_key \in IF fn = "push_profile"
                     THEN {None, Some(<<"/etc/deploy.key">>)} ELSE {None}
    /\ fs = {}
    /\ pc = "start"
    /\ build_command = <<>>
    /\ local_ca_data = [is_ca |-> FALSE, path |-> <<>>]
    /\ derivation_name = None
    /\ trace = <<>>
    /\ result = Pending
    /\ pushes = <<>>

\* push.rs 79-104: a content-addressed profile without flake support
PushCANonFlake ==
    /\ fn = "push_profile" /\ pc = "start"
    /\ IsContentAddressed(data)
    /\ LacksFlakes(data)
    /\ build_command' = << BuildProgram(data) >>
    /\ pc' = "done"
    /\ result' = Err("CADerivationNonFlake", None)
    /\ UNCHANGED <<pushes, fn, data, local_key, fs, local_ca_data, derivation_name, trace>>

\* push.rs 79-115, 152-185: the content-addressed branch up to the spawn
\* of the build
PushCASpawnBuild ==
    /\ fn = "push_profile" /\ pc = "start"
    /\ IsContentAddressed(data)
    /\ ~LacksFlakes(data)
    /\ local_ca_data' = [local_ca_data EXCEPT !.is_ca = TRUE]
    /\ build_command' = PushCABuildCommand(data)
    /\ \E ok \in BOOLEAN :
          /\ trace' = Append(trace, SpawnEntry(build_command', <<>>, ok))
          /\ pc' = IF ok THEN "ca_build_wait" ELSE "done"
          /\ result' = IF ok THEN Pending ELSE BuildError(fn, TRUE, "failed", None)
    /\ UNCHANGED <<pushes, fn, data, local_key, fs, derivation_name>>

\* push.rs 79-96, 116-127: the store-path branch up to show-derivation
PushShowDerivation ==
    /\ fn = "push_profile" /\ pc = "start"
    /\ ~IsContentAddressed(data)
    /\ build_command' = << BuildProgram(data) >>
    /\ \E ok \in BOOLEAN :
          /\ trace' = Append(trace, SpawnEntry(ShowDerivationCommand(data), <<>>, ok))
          /\ pc' = IF ok THEN "show_derivation_wait" ELSE "done"
          /\ result' = IF ok THEN Pending ELSE Err("ShowDerivation", None)
    /\ UNCHANGED <<pushes, fn, data, local_key, fs, local_ca_data, derivation_name>>

\* push.rs 124-172, 204-209: show-derivation ends; its output is read and
\* the build is spawned
ShowDerivationDone ==
    /\ pc = "show_derivation_wait"
    /\ \E io_error \in BOOLEAN, code \in ExitCodes :
       \E out \in IF io_error THEN {<<>>} ELSE ShowDerivationOutputs :
          LET tr   == Finish(trace, io_error, code, out)
              info == ParseDerivationInfo(out)
              err  == ShowDerivationError(io_error, code, out)
          IN  IF err # Pending
              THEN /\ trace' = tr
                   /\ pc' = "done"
                   /\ result' = err
                   /\ UNCHANGED <<build_command, derivation_name>>
              ELSE \E name \in info.keys, ok \in BOOLEAN :
                   /\ derivation_name' = Some(<<name>>)
                   /\ build_command' = PushStoreBuildCommand(data, <<name>>)
                   /\ trace' = Append(tr, SpawnEntry(build_command', <<>>, ok))
                   /\ pc' = IF ok THEN "build_wait" ELSE "done"
                   /\ result' = IF ok THEN Pending
                                ELSE BuildError(fn, FALSE, "failed", None)
    /\ UNCHANGED <<pushes, fn, data, local_key, fs, local_ca_data>>

\* push.rs 204-215, 246-290, 297-345: the store-path build ends; the
\* activation scripts are looked for, then sign or copy is spawned
BuildDone ==
    /\ pc = "build_wait"
    /\ \E io_error \in BOOLEAN, code \in ExitCodes :
          LET tr == Finish(trace, io_error, code, <<>>)
          IN  IF io_error \/ ~ExitOk(code)
              THEN /\ trace' = tr
                   /\ pc' = "done"
                   /\ result' = IF io_error THEN BuildError(fn, FALSE, "ioerr", None)
                                ELSE BuildError(fn, FALSE, "exited", code)
                   /\ fs' = fs
              ELSE \E files \in ArtifactFiles(data.path), ok \in BOOLEAN :
                   LET s == VerifyAndSign(tr, files, data, local_ca_data, local_key, ok)
                   IN  /\ fs' = files
                       /\ trace' = s.trace
                       /\ pc' = s.pc
                       /\ result' = s.result
    /\ UNCHANGED <<pushes, fn, data, local_key, build_command, local_ca_data, derivation_name>>

\* push.rs 187-202, 217-245, 297-331: the content-addressed build ends; its
\* output becomes the path, the activation scripts are looked for, then
\* sign or copy is spawned
CABuildDone ==
    /\ fn = "push_profile" /\ pc = "ca_build_wait"
    /\ \E io_error \in BOOLEAN, code \in ExitCodes :
       \E out \in IF ~io_error /\ ExitOk(code) THEN BuildOutputs ELSE {<<>>} :
          LET tr == Finish(trace, io_error, code, out)
          IN  IF io_error \/ ~ExitOk(code) \/ ~Utf8Valid(out)
              THEN /\ trace' = tr
                   /\ pc' = "done"
                   /\ result' = IF io_error THEN BuildError(fn, TRUE, "ioerr", None)
                                ELSE IF ~ExitOk(code)
                                THEN BuildError(fn, TRUE, "exited", code)
                                ELSE Panic
                   /\ UNCHANGED <<fs, local_ca_data>>
              ELSE \E files \in ArtifactFiles(Trim(out)), ok \in BOOLEAN :
                   LET ca == [local_ca_data EXCEPT !.path = CaPathOfOutput(out)]
                       s  == VerifyAndSign(tr, files, data, ca, local_key, ok)
                   IN  /\ fs' = files
                       /\ local_ca_data' = ca
                       /\ trace' = s.trace
                       /\ pc' = s.pc
                       /\ result' = s.result
    /\ UNCHANGED <<pushes, fn, data, local_key, build_command, derivation_name>>

\* push.rs 237-245, 281-289, 297-345: sign-paths ends; the copy is spawned
SignDone ==
    /\ pc = "sign_wait"
    /\ \E io_error \in BOOLEAN, code \in ExitCodes :
          LET tr == Finish(trace, io_error, code, <<>>)
          IN  IF io_error \/ ~ExitOk(code)
              THEN /\ trace' = tr
                   /\ pc' = "done"
                   /\ result' = IF io_error THEN Err("Sign", None)
                                ELSE Err("SignExit", code)
              ELSE \E ok \in BOOLEAN :
                   LET s == StartCopy(tr, data, local_ca_data, ok)
                   IN  /\ trace' = s.trace
                       /\ pc' = s.pc
                       /\ result' = s.result
    /\ UNCHANGED <<pushes, fn, data, local_key, fs, build_command, local_ca_data, derivation_name>>

\* push.rs 329-353: the copy ends
CopyDone ==
    /\ pc = "copy_wait"
    /\ \E io_error \in BOOLEAN, code \in ExitCodes :
          /\ trace' = Finish(trace, io_error, code, <<>>)
          /\ pc' = "done"
          /\ result' = IF io_error THEN Err("Copy", None)
                       ELSE IF ~ExitOk(code) THEN Err("CopyExit", code)
                       ELSE Ok(<<>>)
    /\ UNCHANGED <<pushes, fn, data, local_key, fs, build_command, local_ca_data, derivation_name>>

\* buildca.rs 30-43: no flake support
BuildCANonFlake ==
    /\ fn = "build_ca_profile" /\ pc = "start"
    /\ LacksFlakes(data)
    /\ pc' = "done"
    /\ result' = Err("CADerivationNonFlake", None)
    /\ UNCHANGED <<pushes, fn, data, local_key, fs, build_command, local_ca_data,
                   derivation_name, trace>>

\* buildca.rs 30-73: up to the spawn of the build
BuildCASpawnBuild ==
    /\ fn = "build_ca_profile" /\ pc = "start"
    /\ ~LacksFlakes(data)
    /\ local_ca_data' = [local_ca_data EXCEPT !.is_ca = TRUE]
    /\ build_command' = BuildCACommand(data)
    /\ \E ok \in BOOLEAN :
          /\ trace' = Append(trace, SpawnEntry(build_command', <<>>, ok))
          /\ pc' = IF ok THEN "ca_build_wait" ELSE "done"
          /\ result' = IF ok THEN Pending ELSE BuildError(fn, TRUE, "failed", None)
    /\ UNCHANGED <<pushes, fn, data, local_key, fs, derivation_name>>

\* buildca.rs 75-92: the build ends; the trimmed output is returned
BuildCADone ==
    /\ fn = "build_ca_profile" /\ pc = "ca_build_wait"
    /\ \E io_error \in BOOLEAN, code \in ExitCodes :
       \E out \in IF ~io_error /\ ExitOk(code) THEN BuildOutputs ELSE {<<>>} :
          /\ trace' = Finish(trace, io_error, code, out)
          /\ pc' = "done"
          /\ IF io_error \/ ~ExitOk(code) \/ ~Utf8Valid(out)
             THEN /\ result' = IF io_error THEN BuildError(fn, TRUE, "ioerr", None)
                               ELSE IF ~ExitOk(code)
                               THEN BuildError(fn, TRUE, "exited", code)
                               ELSE Panic
                  /\ local_ca_data' = local_ca_data
             ELSE /\ local_ca_data' = [local_ca_data EXCEPT !.path = BuildCaPathOfOutput(out)]
                  /\ result' = Ok(local_ca_data'.path)
    /\ UNCHANGED <<pushes, fn, data, local_key, fs, build_command, derivation_name>>

Next ==
    \/ PushCANonFlake
    \/ PushCASpawnBuild
    \/ PushShowDerivation
    \/ ShowDerivationDone
    \/ BuildDone
    \/ CABuildDone
    \/ SignDone
    \/ CopyDone
    \/ BuildCANonFlake
    \/ BuildCASpawnBuild
    \/ BuildCADone

Spec == Init /\ [][Next]_vars

-----------------------------------------------------------------------------
(* Two calls of push_profile side by side *)

Pushers == {1, 2}

\* two profiles with different (node, profile) names, results kept in the
\* same directory
InitLink ==
    /\ \E rp \in {None, Some(ResultDir)} :
       \E n1, p1, n2, p2 \in NameChoices :
          /\ <<n1, p1>> # <<n2, p2>>
          /\ pushes = [ p \in Pushers |->
                          [ data          |-> IF p = 1 THEN KeptProfile(rp, n1, p1)
                                              ELSE KeptProfile(rp, n2, p2),
                            pc            |-> "start",
                            build_command |-> <<>>,
                            link          |-> None ] ]
    /\ fn = "push_profile"
    /\ data = KeptProfile(None, NodeName, ProfileName)
    /\ local_key = None
    /\ fs = {}
    /\ pc = "start"
    /\ build_command = <<>>
    /\ local_ca_data = [is_ca |-> FALSE, path |-> <<>>]
    /\ derivation_name = None
    /\ trace = <<>>
    /\ result = Pending

\* the argument that follows --out-link
OutLinkArg(argv) ==
    LET i == CHOOSE i \in DOMAIN argv : argv[i] = <<"--out-link">>
    IN  argv[i + 1]

\* push.rs 79-185: a call builds its command and spawns the build
LinkSpawnBuild(p) ==
    /\ pushes[p].pc = "start"
    /\ \E ok \in BOOLEAN :
          pushes' = [pushes EXCEPT
                       ![p].build_command = PushCABuildCommand(pushes[p].data),
                       ![p].pc = IF ok THEN "ca_build_wait" ELSE "done"]
    /\ UNCHANGED call_vars

\* push.rs 187-195: the build ends; when it succeeded it has made the link
\* it was told to make (the stages after the build make no link)
LinkBuildDone(p) ==
    /\ pushes[p].pc = "ca_build_wait"
    /\ \E io_error \in BOOLEAN, code \in ExitCodes :
          pushes' = [pushes EXCEPT
                       ![p].link = IF ~io_error /\ ExitOk(code)
                                   THEN Some(OutLinkArg(pushes[p].build_command))
                                   ELSE None,
                       ![p].pc = "done"]
    /\ UNCHANGED call_vars

NextLink ==
    \E p \in Pushers : LinkSpawnBuild(p) \/ LinkBuildDone(p)

SpecLink == InitLink /\ [][NextLink]_vars

-----------------------------------------------------------------------------
(* Reading the trace *)

IsShowDerivation(e) ==
    e.kind = "spawn" /\ Len(e.argv) >= 2 /\ e.argv[2] = <<"show-derivation">>

IsBuild(e) ==
    /\ e.kind = "spawn"
    /\ \/ e.argv[1] = <<"nix-build">>
       \/ Len(e.argv) >= 2 /\ e.argv[2] = <<"build">>

IsSign(e) == e.kind = "spawn" /\ Len(e.argv) >= 2 /\ e.argv[2] = <<"sign-paths">>

IsCopy(e) == e.kind = "spawn" /\ Len(e.argv) >= 2 /\ e.argv[2] = <<"copy">>

IsExists(e) == e.kind = "exists"

LastArg(e) == e.argv[Len(e.argv)]

\* the call or the process ended in failure
Failed(e) ==
    \/ e.status \in {"failed", "ioerr", "missing"}
    \/ e.status = "exited" /\ e.code # Some(0)

Contains(seq, x) == \E i \in DOMAIN seq : seq[i] = x

Count(seq, x) == Cardinality({ i \in DOMAIN seq : seq[i] = x })

-----------------------------------------------------------------------------
(* Claims *)

\* C1: in push_profile, in both branches, every sign and every copy that is
\* spawned for a path comes after both <path>/deploy-rs-activate and
\* <path>/activate-rs were looked for, in this run, and found.
C1_SignCopyOnlyAfterVerification ==
    fn = "push_profile" =>
        \A i \in DOMAIN trace :
            (IsSign(trace[i]) \/ IsCopy(trace[i])) =>
                \E j, k \in 1..(i - 1) :
                    /\ j < k
                    /\ trace[j] = ExistsEntry(DeployRsActivate(LastArg(trace[i])), TRUE)
                    /\ trace[k] = ExistsEntry(ActivateRs(LastArg(trace[i])), TRUE)

\* a content-addressed push whose copy is running after a sign
C1_Witness ==
    /\ fn = "push_profile" /\ local_ca_data.is_ca /\ pc = "copy_wait"
    /\ \E i \in DOMAIN trace : IsSign(trace[i])

\* the error each failure is reported as
StageError(e, ca) ==
    IF IsShowDerivation(e)
    THEN IF e.status = "exited" THEN Err("ShowDerivationExit", e.code)
         ELSE Err("ShowDerivation", None)
    ELSE IF IsBuild(e) /\ ca
    THEN IF e.status = "failed" THEN Err("BuildErrorStart", None)
         ELSE IF e.status = "ioerr" THEN Err("BuildErrorRun", None)
         ELSE Err("BuildErrorCode", e.code)
    ELSE IF IsBuild(e)
    THEN IF e.status = "exited" THEN Err("BuildExit", e.code) ELSE Err("Build", None)
    ELSE IF IsSign(e)
    THEN IF e.status = "exited" THEN Err("SignExit", e.code) ELSE Err("Sign", None)
    ELSE IF IsCopy(e)
    THEN IF e.status = "exited" THEN Err("CopyExit", e.code) ELSE Err("Copy", None)
    ELSE IF \E p \in {data.path, local_ca_data.path} : e.argv[1] = DeployRsActivate(p)
    THEN Err("DeployRsActivateDoesntExist", None)
    ELSE Err("ActivateRsDoesntExist", None)

\* the stage an entry of the trace belongs to, in pipeline order
StageOf(e) ==
    IF IsShowDerivation(e) THEN 1
    ELSE IF IsBuild(e) THEN 2
    ELSE IF IsExists(e) THEN 3
    ELSE IF IsSign(e) THEN 4
    ELSE 5

\* C2: push_profile is fail-fast: a failure of show-derivation, of the flake
\* precondition, of the build, of the verification, of sign or of copy is the
\* last thing the run does, the run has returned that stage's error, and no
\* later stage's process was started; a build that exits with code 1 gives
\* the build bad-exit-code error carrying Some(1), with no verification, sign
\* or copy.
C2_FailFast ==
    fn = "push_profile" =>
        /\ \A i \in DOMAIN trace :
              Failed(trace[i]) =>
                  /\ i = Len(trace)
                  /\ pc = "done"
                  /\ result = StageError(trace[i], IsContentAddressed(data))
                  /\ \A j \in 1..(i - 1) : StageOf(trace[j]) <= StageOf(trace[i])
        /\ result.tag = "CADerivationNonFlake" => trace = <<>>
        /\ result.tag \in {"ShowDerivationUtf8", "ShowDerivationParse", "ShowDerivationEmpty"}
              => Len(trace) = 1 /\ IsShowDerivation(trace[1])
        /\ \A i \in DOMAIN trace :
              (IsBuild(trace[i]) /\ trace[i].status = "exited" /\ trace[i].code = Some(1)) =>
                  /\ result \in {Err("BuildExit", Some(1)), Err("BuildErrorCode", Some(1))}
                  /\ \A j \in DOMAIN trace :
                        ~IsExists(trace[j]) /\ ~IsSign(trace[j]) /\ ~IsCopy(trace[j])
        /\ pc = "done" /\ result.tag \notin {"Ok", "panic"} =>
              \/ trace # <<>> /\ Failed(trace[Len(trace)])
              \/ result.tag \in {"CADerivationNonFlake", "ShowDerivationUtf8",
                                  "ShowDerivationParse", "ShowDerivationEmpty"}

\* a store-path build that exited with code 1
C2_Witness ==
    /\ fn = "push_profile" /\ pc = "done"
    /\ result = Err("BuildExit", Some(1))
    /\ Len(trace) = 2 /\ trace[2].code = Some(1)

\* C3: with supports_flakes = false, push_profile of a profile path that does
\* not start with "/nix/store", and build_ca_profile of any input, start no
\* external process and return CADerivationNonFlake.
C3_CADerivationNonFlake ==
    (/\ ~data.supports_flakes
     /\ \/ fn = "build_ca_profile"
        \/ ~StartsWith(data.path, <<"/nix/store">>)) =>
        /\ trace = <<>>
        /\ \/ pc = "start" /\ result = Pending
           \/ pc = "done" /\ result = Err("CADerivationNonFlake", None)

\* push_profile has returned CADerivationNonFlake
C3_Witness ==
    /\ fn = "push_profile" /\ pc = "done"
    /\ ~data.supports_flakes /\ data.path = CAPath
    /\ result.tag = "CADerivationNonFlake"

\* the link path push_profile is to use
ExpectedOutLink ==
    (IF data.result_path = None THEN <<"./.deploy-gc">> ELSE data.result_path[1])
        \o <<"/">> \o data.node_name \o <<"/">> \o data.profile_name

\* the link policy of C4, said of an argument list
LinkPolicy(args) ==
    /\ Contains(args, <<"--out-link">>) <=> data.keep_result
    /\ data.keep_result <=>
          \E i \in 1..(Len(args) - 1) :
              args[i] = <<"--out-link">> /\ args[i + 1] = ExpectedOutLink
    /\ ~data.keep_result =>
          /\ Count(args, <<"--no-link">>) + Count(args, <<"--no-out-link">>) = 1
          /\ Contains(args, IF data.supports_flakes
                            THEN <<"--no-link">> ELSE <<"--no-out-link">>)
    /\ data.keep_result =>
          ~Contains(args, <<"--no-link">>) /\ ~Contains(args, <<"--no-out-link">>)

\* the arguments of a build of push_profile that precede the caller's extra
\* arguments
BeforeExtraArgs(e) ==
    SubSeq(e.argv, 1, Len(e.argv) - Len(data.extra_build_args)
                        - (IF IsContentAddressed(data) THEN 1 ELSE 0))

\* C4 as stated: the arguments of every build push_profile spawns contain
\* `--out-link <result_dir>/<node>/<profile>` iff keep_result; without
\* keep_result exactly one suppression flag, `--no-link` with flakes and
\* `--no-out-link` without; never an out-link and a suppression flag.
C4_LinkPolicyOfAllArgs ==
    fn = "push_profile" =>
        \A i \in DOMAIN trace : IsBuild(trace[i]) => LinkPolicy(trace[i].argv)

\* C4 amended: the same, of the arguments push_profile itself adds: those
\* that precede the caller's extra arguments.
C4_LinkPolicyBeforeExtraArgs ==
    fn = "push_profile" =>
        \A i \in DOMAIN trace :
            IsBuild(trace[i]) =>
                /\ Len(trace[i].argv) > Len(data.extra_build_args)
                /\ LinkPolicy(BeforeExtraArgs(trace[i]))

\* a build with keep_result, the default result directory and an extra
\* argument that is itself a link flag
C4_Witness ==
    /\ fn = "push_profile" /\ pc \in {"build_wait", "ca_build_wait"}
    /\ data.keep_result /\ data.result_path = None
    /\ Contains(data.extra_build_args, <<"--no-link">>)
    /\ IsBuild(trace[Len(trace)])

\* the path the stages after the build of push_profile are to work on: what
\* the build printed for a content-addressed profile, the declared store
\* path otherwise; b is the position of the build in the trace
BuildIndex == IF IsContentAddressed(data) THEN 1 ELSE 2

BuildSucceeded ==
    /\ fn = "push_profile"
    /\ Len(trace) >= BuildIndex
    /\ IsBuild(trace[BuildIndex])
    /\ trace[BuildIndex].status = "exited"
    /\ trace[BuildIndex].code = Some(0)
    /\ Utf8Valid(trace[BuildIndex].out)

PathAfterBuild ==
    IF IsContentAddressed(data) THEN trace[BuildIndex].out ELSE data.path

\* C5: after a successful build, in both branches: deploy-rs-activate is
\* looked for first, and when it is missing the result is
\* DeployRsActivateDoesntExist whether or not activate-rs exists (which is
\* then not looked for); when only activate-rs is missing the result is
\* ActivateRsDoesntExist; when both exist neither error is the result.
C5_PrimaryCheckedFirst ==
    BuildSucceeded =>
        LET b == BuildIndex
            p == PathAfterBuild
        IN  /\ DeployRsActivate(p) \notin fs =>
                  /\ pc = "done"
                  /\ result = Err("DeployRsActivateDoesntExist", None)
                  /\ Len(trace) = b + 1
                  /\ trace[b + 1] = ExistsEntry(DeployRsActivate(p), FALSE)
            /\ (DeployRsActivate(p) \in fs /\ ActivateRs(p) \notin fs) =>
                  /\ pc = "done"
                  /\ result = Err("ActivateRsDoesntExist", None)
                  /\ Len(trace) = b + 2
                  /\ trace[b + 1] = ExistsEntry(DeployRsActivate(p), TRUE)
                  /\ trace[b + 2] = ExistsEntry(ActivateRs(p), FALSE)
            /\ (DeployRsActivate(p) \in fs /\ ActivateRs(p) \in fs) =>
                  /\ result.tag \notin {"DeployRsActivateDoesntExist",
                                         "ActivateRsDoesntExist"}
                  /\ Len(trace) >= b + 3
                  /\ trace[b + 1] = ExistsEntry(DeployRsActivate(p), TRUE)
                  /\ trace[b + 2] = ExistsEntry(ActivateRs(p), TRUE)

\* only deploy-rs-activate is missing, in the content-addressed branch
C5_Witness ==
    /\ BuildSucceeded /\ IsContentAddressed(data)
    /\ PathAfterBuild = RealizedPath
    /\ fs = {ActivateRs(PathAfterBuild)}
    /\ result.tag = "DeployRsActivateDoesntExist"

Verified ==
    Cardinality({ i \in DOMAIN trace :
                    IsExists(trace[i]) /\ trace[i].status = "found" }) = 2

\* C6: in a run of push_profile that passed verification: with LOCAL_KEY
\* unset no sign process is spawned, the copy is, and no sign error is
\* returned; with LOCAL_KEY set exactly one sign process is spawned, right
\* after the verification, as `nix sign-paths -r -k <key> <path>` with the
\* realized output path (content-addressed) or the declared store path.
C6_SignOnlyWithKey ==
    (BuildSucceeded /\ Verified) =>
        LET signs == { i \in DOMAIN trace : IsSign(trace[i]) }
        IN  /\ local_key = None =>
                  /\ signs = {}
                  /\ \E i \in DOMAIN trace : IsCopy(trace[i])
                  /\ result.tag \notin {"Sign", "SignExit"}
            /\ local_key # None =>
                  /\ signs = {BuildIndex + 3}
                  /\ trace[BuildIndex + 3].argv =
                        << <<"nix">>, <<"sign-paths">>, <<"-r">>, <<"-k">>,
                           local_key[1], PathAfterBuild >>

\* a content-addressed push that is signing the realized path
C6_Witness ==
    /\ BuildSucceeded /\ Verified /\ IsContentAddressed(data)
    /\ local_key # None /\ pc = "sign_wait"

\* C7: every copy push_profile spawns goes `--to ssh://<ssh_user>@<host>`,
\* <host> being cmd_overrides.hostname when present and the node's hostname
\* otherwise; has `--substitute-on-destination` iff fast_connection is not
\* Some(true); has `--no-check-sigs` iff check_sigs is false.
C7_CopyArguments ==
    \A i \in DOMAIN trace :
        IsCopy(trace[i]) =>
            LET a    == trace[i].argv
                host == IF data.override_hostname = None
                        THEN data.hostname ELSE data.override_hostname[1]
            IN  /\ Len(a) >= 5
                /\ a[Len(a) - 2] = <<"--to">>
                /\ a[Len(a) - 1] = <<"ssh://">> \o data.ssh_user \o <<"@">> \o host
                /\ Contains(a, <<"--substitute-on-destination">>)
                      <=> data.fast_connection # Some(TRUE)
                /\ Contains(a, <<"--no-check-sigs">>) <=> ~data.check_sigs

\* a copy to the override host with fast_connection unset
C7_Witness ==
    /\ pc = "copy_wait" /\ IsCopy(trace[Len(trace)])
    /\ data.override_hostname # None /\ data.fast_connection = None
    /\ data.check_sigs

\* every process of the run exited with code 0 and every file looked for
\* was found
AllSucceeded ==
    \A i \in DOMAIN trace :
        IF IsExists(trace[i]) THEN trace[i].status = "found"
        ELSE trace[i].status = "exited" /\ trace[i].code = Some(0)

ScenarioA ==
    /\ fn = "push_profile"
    /\ StartsWith(data.path, <<"/nix/store">>)
    /\ data.supports_flakes /\ ~data.keep_result /\ local_key = None
    /\ data.fast_connection = Some(TRUE) /\ ~data.check_sigs

\* C8: scenario A (store path, flakes, no keep_result, no LOCAL_KEY, fast
\* connection, no check_sigs), every process succeeding, show-derivation
\* naming a derivation and the profile holding its activation scripts: the
\* run is exactly `nix show-derivation <path>`, `nix build <derivation>
\* --no-link [extra args]`, the two activation checks on the profile path,
\* no sign, `nix copy --no-check-sigs --to ssh://<user>@<host> <path>`, and
\* the result is Ok.
C8_ScenarioA ==
    (/\ ScenarioA /\ pc = "done" /\ trace # <<>> /\ AllSucceeded
     /\ ParseDerivationInfo(trace[1].out).keys # {}
     /\ {DeployRsActivate(data.path), ActivateRs(data.path)} \subseteq fs) =>
        /\ result = Ok(<<>>)
        /\ Len(trace) = 5
        /\ trace[1].kind = "spawn"
        /\ trace[1].argv = << <<"nix">>, <<"show-derivation">>, data.path >>
        /\ trace[2].kind = "spawn"
        /\ \E name \in ParseDerivationInfo(trace[1].out).keys :
              trace[2].argv = << <<"nix">>, <<"build">>, <<name>>, <<"--no-link">> >>
                                  \o data.extra_build_args
        /\ trace[3] = ExistsEntry(data.path \o <<"/", "deploy-rs-activate">>, TRUE)
        /\ trace[4] = ExistsEntry(data.path \o <<"/", "activate-rs">>, TRUE)
        /\ trace[5].kind = "spawn"
        /\ trace[5].argv =
              << <<"nix">>, <<"copy">>, <<"--no-check-sigs">>, <<"--to">>,
                 <<"ssh://">> \o data.ssh_user \o <<"@">>
                     \o (IF data.override_hostname = None
                         THEN data.hostname ELSE data.override_hostname[1]),
                 data.path >>

\* scenario A has returned Ok
C8_Witness ==
    /\ ScenarioA /\ pc = "done" /\ result.tag = "Ok"
    /\ data.extra_build_args # <<>>

ScenarioB ==
    /\ fn = "push_profile"
    /\ ~StartsWith(data.path, <<"/nix/store">>)
    /\ data.supports_flakes /\ data.keep_result /\ local_key # None

\* C9: scenario B (content-addressed, flakes, keep_result, LOCAL_KEY set),
\* every process succeeding and the realized output (at the path the build
\* printed) holding its activation scripts: no show-derivation; the build is
\* `<repo>#deploy.nodes.<node>.profiles.<profile>.path --out-link
\* <dir>/<node>/<profile> ... --print-out-paths`; the activation checks, the
\* sign and the copy are on the realized path; the result is Ok.
C9_ScenarioB ==
    (/\ ScenarioB /\ pc = "done" /\ BuildSucceeded /\ result.tag # "panic"
     /\ \A i \in DOMAIN trace :
           trace[i].kind = "spawn" => trace[i].status = "exited" /\ trace[i].code = Some(0)
     /\ { DeployRsActivate(Trim(trace[1].out)), ActivateRs(Trim(trace[1].out)) }
           \subseteq fs) =>
        LET realized == Trim(trace[1].out)
            a        == trace[1].argv
        IN  /\ result = Ok(<<>>)
            /\ Len(trace) = 5
            /\ \A i \in DOMAIN trace : ~IsShowDerivation(trace[i])
            /\ SubSeq(a, 1, 5) =
                  << <<"nix">>, <<"build">>,
                     data.repo \o <<"#deploy.nodes.">> \o data.node_name
                         \o <<".profiles.">> \o data.profile_name \o <<".path">>,
                     <<"--out-link">>, ExpectedOutLink >>
            /\ a[Len(a)] = <<"--print-out-paths">>
            /\ trace[2] = ExistsEntry(realized \o <<"/", "deploy-rs-activate">>, TRUE)
            /\ trace[3] = ExistsEntry(realized \o <<"/", "activate-rs">>, TRUE)
            /\ trace[4].argv = << <<"nix">>, <<"sign-paths">>, <<"-r">>, <<"-k">>,
                                  local_key[1], realized >>
            /\ IsCopy(trace[5]) /\ LastArg(trace[5]) = realized

\* C10: in every build command of push_profile and of build_ca_profile the
\* caller's extra arguments are the final arguments, verbatim and in order,
\* after the subcommand, the target, the link flag and, for a
\* content-addressed build, `--print-out-paths`.
C10_ExtraArgsAreLast ==
    \A i \in DOMAIN trace :
        IsBuild(trace[i]) =>
            LET a == trace[i].argv
                n == Len(data.extra_build_args)
            IN  /\ Len(a) > n
                /\ SubSeq(a, Len(a) - n + 1, Len(a)) = data.extra_build_args
                /\ (fn = "build_ca_profile" \/ ~StartsWith(data.path, <<"/nix/store">>)) =>
                      Contains(SubSeq(a, 1, Len(a) - n), <<"--print-out-paths">>)

\* C11: in the build stage of push_profile, in both branches, and of
\* build_ca_profile, a build that could not be spawned and a build whose
\* wait failed are reported as two different error kinds, and neither is the
\* kind a bad exit code is reported as.
C11_BuildStartAndRunDistinct ==
    \A i \in DOMAIN trace :
        IsBuild(trace[i]) =>
            LET ca    == fn = "build_ca_profile" \/ ~StartsWith(data.path, <<"/nix/store">>)
                start == BuildError(fn, ca, "failed", None).tag
                run   == BuildError(fn, ca, "ioerr", None).tag
                exit  == BuildError(fn, ca, "exited", Some(1)).tag
            IN  /\ trace[i].status = "failed" =>
                      result.tag = start /\ result.tag \notin {run, exit}
                /\ trace[i].status = "ioerr" =>
                      result.tag = run /\ result.tag \notin {start, exit}
                /\ (trace[i].status = "exited" /\ trace[i].code # Some(0)) =>
                      result.tag = exit /\ result.tag \notin {start, run}

\* the bad-exit error of the stage a process belongs to
ExitErrorTag(e) ==
    IF IsShowDerivation(e) THEN "ShowDerivationExit"
    ELSE IF IsBuild(e)
    THEN IF fn = "build_ca_profile" \/ ~StartsWith(data.path, <<"/nix/store">>)
         THEN "BuildErrorCode" ELSE "BuildExit"
    ELSE IF IsSign(e) THEN "SignExit"
    ELSE "CopyExit"

ExitErrorTags ==
    {"ShowDerivationExit", "BuildErrorCode", "BuildExit", "SignExit", "CopyExit"}

\* C12: of every process whose exit status push_profile or build_ca_profile
\* looks at (show-derivation, build, sign, copy), exit code 0 alone is
\* success; a nonzero code c ends the run with that stage's bad-exit error
\* carrying Some(c), no code (killed by a signal) with that error carrying
\* None; a bad-exit error is returned for no other reason and carries the
\* code the process reported.
C12_ExitCodePreserved ==
    /\ \A i \in DOMAIN trace :
          (trace[i].kind = "spawn" /\ trace[i].status = "exited") =>
              /\ trace[i].code = Some(0) => result.tag # ExitErrorTag(trace[i])
              /\ trace[i].code # Some(0) =>
                    /\ i = Len(trace)
                    /\ pc = "done"
                    /\ result.tag = ExitErrorTag(trace[i])
                    /\ result.code = trace[i].code
    /\ result.tag \in ExitErrorTags =>
          /\ trace # <<>>
          /\ trace[Len(trace)].status = "exited"
          /\ trace[Len(trace)].code # Some(0)
          /\ result.tag = ExitErrorTag(trace[Len(trace)])
    /\ result.tag \notin ExitErrorTags => result.code = None

\* a copy that was killed by a signal
C12_Witness ==
    /\ pc = "done" /\ result = Err("CopyExit", None)
    /\ IsCopy(trace[Len(trace)]) /\ trace[Len(trace)].status = "exited"

\* the target a store-path build command names: after `nix build` with
\* flakes, after `nix-build` without
BuildTarget(e) == IF data.supports_flakes THEN e.argv[3] ELSE e.argv[2]

\* C13: in the store-path branch, show-derivation exiting 0 with the empty
\* mapping `{}` fails the push with ShowDerivationEmpty and no build, sign
\* or copy is started; the target of the build is always a key of the
\* decoded mapping; and the failures are tested in the order start failure,
\* bad exit code, invalid UTF-8, parse failure, empty mapping.
C13_ShowDerivationChecks ==
    \A i \in DOMAIN trace :
        (IsShowDerivation(trace[i]) /\ trace[i].status # "running") =>
            LET e    == trace[i]
                info == ParseDerivationInfo(e.out)
            IN  /\ i = 1
                /\ IF e.status \in {"failed", "ioerr"}
                   THEN result = Err("ShowDerivation", None) /\ Len(trace) = 1
                   ELSE IF e.code # Some(0)
                   THEN result = Err("ShowDerivationExit", e.code) /\ Len(trace) = 1
                   ELSE IF ~Utf8Valid(e.out)
                   THEN result = Err("ShowDerivationUtf8", None) /\ Len(trace) = 1
                   ELSE IF ~info.ok
                   THEN result = Err("ShowDerivationParse", None) /\ Len(trace) = 1
                   ELSE IF info.keys = {}
                   THEN result = Err("ShowDerivationEmpty", None) /\ Len(trace) = 1
                   ELSE /\ Len(trace) >= 2
                        /\ IsBuild(trace[2])
                        /\ \E k \in info.keys : BuildTarget(trace[2]) = <<k>>
                        /\ result.tag \notin
                              {"ShowDerivation", "ShowDerivationExit", "ShowDerivationUtf8",
                               "ShowDerivationParse", "ShowDerivationEmpty"}

\* show-derivation exited 0 and printed `{}`
C13_Witness ==
    /\ pc = "done" /\ result = Err("ShowDerivationEmpty", None)
    /\ Len(trace) = 1 /\ IsShowDerivation(trace[1])
    /\ trace[1].code = Some(0) /\ trace[1].out = <<"{", "}">>

\* the call found its file, or the process exited with code 0
Succeeded(e) ==
    IF IsExists(e) THEN e.status = "found"
    ELSE e.status = "exited" /\ e.code = Some(0)

\* the stage a run that is waiting waits in
WaitingFor(e) ==
    IF IsShowDerivation(e) THEN "show_derivation_wait"
    ELSE IF IsBuild(e)
    THEN IF IsContentAddressed(data) THEN "ca_build_wait" ELSE "build_wait"
    ELSE IF IsSign(e) THEN "sign_wait"
    ELSE "copy_wait"

\* the stages are entered in order, each from the one before it and only
\* after that one succeeded, and each process is started at most once
StagesInOrder ==
    fn = "push_profile" =>
        LET n  == Len(trace)
            ca == IsContentAddressed(data)
        IN  /\ \A i \in 1 .. n - 1 : Succeeded(trace[i])
            /\ \A i \in DOMAIN trace :
                  LET e == trace[i]
                  IN  /\ IsShowDerivation(e) => ~ca /\ i = 1
                      /\ IsBuild(e) =>
                            IF ca THEN i = 1
                            ELSE i = 2 /\ IsShowDerivation(trace[1])
                      /\ IsExists(e) =>
                            /\ i > 1
                            /\ \/ IsBuild(trace[i - 1])
                               \/ i > 2 /\ IsExists(trace[i - 1]) /\ IsBuild(trace[i - 2])
                      /\ IsSign(e) =>
                            /\ local_key # None
                            /\ i > 2 /\ IsExists(trace[i - 1]) /\ IsExists(trace[i - 2])
                      /\ IsCopy(e) =>
                            /\ i > 2
                            /\ IF local_key = None
                               THEN IsExists(trace[i - 1]) /\ IsExists(trace[i - 2])
                               ELSE IsSign(trace[i - 1])
            /\ \A i, j \in DOMAIN trace :
                  (i # j /\ ~IsExists(trace[i])) => StageOf(trace[i]) # StageOf(trace[j])
            /\ pc = "start" => trace = <<>>
            /\ pc \notin {"start", "done"} =>
                  /\ n >= 1 /\ trace[n].status = "running"
                  /\ pc = WaitingFor(trace[n])
                  /\ result = Pending
            /\ pc = "done" =>
                  /\ \A i \in DOMAIN trace : trace[i].status # "running"
                  /\ result # Pending
                  /\ result.tag = "Ok" <=> (n >= 1 /\ IsCopy(trace[n]) /\ Succeeded(trace[n]))

\* C14: a run of push_profile goes through show-derivation (store-path
\* branch only), build, verification, sign (with LOCAL_KEY) or no sign
\* (without), copy, in this order, no stage skipped, repeated or revisited
\* and no process started twice; it ends in Done (Ok, after the copy) or
\* in Failed(kind), kind an error of push_profile, and starts nothing after.
C14_StateMachine ==
    /\ StagesInOrder
    /\ (fn = "push_profile" /\ pc = "done") =>
          result.tag \in {"Ok"} \cup PushProfileError

\* C15: whatever the processes do (fail to start, fail while awaited, exit
\* with any code or none, print any bytes, valid UTF-8 or not) and whatever
\* the filesystem and the environment hold, a run of push_profile or of
\* build_ca_profile that is over has returned Ok or one error of its error
\* type; it never ends any other way.
C15_ReturnsOkOrTaggedError ==
    pc = "done" =>
        \/ result.tag = "Ok"
        \/ fn = "push_profile" /\ result.tag \in PushProfileError
        \/ fn = "build_ca_profile" /\ result.tag \in BuildCAProfileError

\* the processes that were started and have not ended
Alive == { i \in DOMAIN trace : trace[i].kind = "spawn" /\ trace[i].status = "running" }

\* C16: in a run of push_profile at most one process is alive at any time,
\* and it is the one started last: when a process is started, every process
\* started before it has exited and its exit code has been found to be 0.
C16_OneProcessAtATime ==
    fn = "push_profile" =>
        /\ Cardinality(Alive) <= 1
        /\ Alive \subseteq {Len(trace)}
        /\ \A i, j \in DOMAIN trace :
              (i < j /\ trace[i].kind = "spawn" /\ trace[j].kind = "spawn") =>
                  trace[i].status = "exited" /\ trace[i].code = Some(0)

\* the copy is alive, the build and the signing before it have ended
C16_Witness ==
    /\ fn = "push_profile" /\ pc = "copy_wait"
    /\ Alive = {Len(trace)}
    /\ \E i \in DOMAIN trace : IsSign(trace[i]) /\ trace[i].status = "exited"
    /\ \E i \in DOMAIN trace : IsBuild(trace[i]) /\ trace[i].status = "exited"

\* C17: two calls of push_profile with keep_result, the same result
\* directory and different (node, profile) names, running side by side, pass
\* different --out-link paths to their builds and never leave the same link.
C17_OutLinksDiffer ==
    \A p, q \in DOMAIN pushes :
        ( /\ p # q
          /\ <<pushes[p].data.node_name, pushes[p].data.profile_name>>
                # <<pushes[q].data.node_name, pushes[q].data.profile_name>>
          /\ pushes[p].build_command # <<>>
          /\ pushes[q].build_command # <<>> ) =>
            /\ OutLinkArg(pushes[p].build_command) # OutLinkArg(pushes[q].build_command)
            /\ pushes[p].link # None => pushes[p].link # pushes[q].link

\* C18: for a content-addressed profile with flakes, push_profile builds the
\* target build_ca_profile builds, `<repo>#deploy.nodes.<node>.profiles.
\* <profile>.path`, and from a successful build's standard output it takes
\* the path build_ca_profile returns for that output, the output trimmed;
\* that trimmed path is what it verifies, signs and copies.
C18_PushAgreesWithBuildCa ==
    (Len(trace) >= 1 /\ IsBuild(trace[1])
        /\ (fn = "build_ca_profile" \/ IsContentAddressed(data))) =>
        LET b    == trace[1]
            path == BuildCaPathOfOutput(b.out)
        IN  /\ b.argv[3] = BuildCACommand(data)[3]
            /\ b.argv[3] = data.repo \o <<"#deploy.nodes.">> \o data.node_name
                              \o <<".profiles.">> \o data.profile_name \o <<".path">>
            /\ (Succeeded(b) /\ Utf8Valid(b.out)) =>
                  /\ local_ca_data.path = path
                  /\ fn = "build_ca_profile" => result = Ok(path)
                  /\ \A i \in DOMAIN trace :
                        /\ IsExists(trace[i]) =>
                              trace[i].argv[1] \in {DeployRsActivate(path), ActivateRs(path)}
                        /\ (IsSign(trace[i]) \/ IsCopy(trace[i])) =>
                              LastArg(trace[i]) = path

\* the path an entry made after the build works on
PathUsed(e) ==
    IF IsExists(e) THEN SubSeq(e.argv[1], 1, Len(e.argv[1]) - 2)
    ELSE LastArg(e)

\* C19: in a run of push_profile the activation checks, the signing and the
\* copy all work on one path: the realized output path (the build's output,
\* trimmed) when the profile is content-addressed, the declared store path
\* otherwise; the flag that selects it is set before the build is started
\* and keeps its value.
C19_SinglePostBuildPath ==
    (fn = "push_profile" /\ trace # <<>>) =>
        LET path == IF IsContentAddressed(data)
                    THEN BuildCaPathOfOutput(trace[BuildIndex].out)
                    ELSE data.path
        IN  /\ local_ca_data.is_ca = IsContentAddressed(data)
            /\ \A i \in DOMAIN trace :
                  (IsExists(trace[i]) \/ IsSign(trace[i]) \/ IsCopy(trace[i])) =>
                      /\ i > BuildIndex
                      /\ PathUsed(trace[i]) = path
                      /\ PathUsed(trace[i]) = PushedPath(data, local_ca_data)

=============================================================================
